---- MODULE Spec2Model ----
(***************************************************************************)
(* Model of src/app/streamlit_app.py: the name normaliser normalize_str,   *)
(* the zonal statistics of compute_stats over the band loop, the assembly  *)
(* of the statistics table, and the percentile targeting (global and       *)
(* Amazonian) computed from the statistics table read back from CSV.       *)
(*                                                                         *)
(* Numbers are exact rationals [num, den] with den > 0; den = 0 is the     *)
(* missing value (NaN, None, numpy's masked constant).                     *)
(***************************************************************************)
EXTENDS Integers, Sequences, FiniteSets, TLC

VARIABLES
    pc,                      \* position in the script
    gdf,                     \* boundary features (attribute rows), line 72
    src,                     \* raster: src[b][i] is the window of band b read for feature i
    b,                       \* band loop variable, line 85
    all_stats,               \* list of per-band tables, line 84
    result,                  \* assembled statistics table, line 95
    latest_year,             \* line 112
    csv_file,                \* the content of Data/tmin_stats.csv on disk
    t_min_stats,             \* table read from Data/tmin_stats.csv, line 147
    global_p10,              \* line 150
    target_unique,           \* line 157
    departamentos,           \* line 168
    promedio_tmin,           \* line 173
    promedio_por_depto,      \* line 176
    t_min_stats_amazonicos,  \* line 186
    global_p10_amazonicos,   \* line 188
    target_unique_amazonicos,\* line 195
    departamentos_amaz,      \* line 203
    departamentos_amazonicos_df, \* line 205
    promedio_tmin_amazonicos,\* line 208
    promedio_por_depto_amazonicos, \* line 211
    error,                   \* the exception that ended the script, "" when none
    s,                       \* normalize_str: the argument
    once,                    \* normalize_str(s)
    twice                    \* normalize_str(normalize_str(s))

vars == <<pc, gdf, src, b, all_stats, result, latest_year, csv_file, t_min_stats,
          global_p10, target_unique, departamentos, promedio_tmin, promedio_por_depto,
          t_min_stats_amazonicos, global_p10_amazonicos, target_unique_amazonicos,
          departamentos_amaz, departamentos_amazonicos_df, promedio_tmin_amazonicos,
          promedio_por_depto_amazonicos, error, s, once, twice>>

zonalVars == <<gdf, src, b, all_stats, result, latest_year>>

globalVars == <<global_p10, target_unique, departamentos, promedio_tmin, promedio_por_depto>>

amazonVars == <<t_min_stats_amazonicos, global_p10_amazonicos, target_unique_amazonicos,
                departamentos_amaz, departamentos_amazonicos_df, promedio_tmin_amazonicos,
                promedio_por_depto_amazonicos>>

normVars == <<s, once, twice>>

-----------------------------------------------------------------------------
(* Bounds of the model *)

MaxFeatures == 2
MaxBands == 2
MaxCells == 1
MaxStatCells == 11
MaxDistricts == 3
MaxMean == 3
MaxRows == 3
MaxScenario == 100
MaxPanel == 4
PanelYears == 3
MaxStrLen == 3

-----------------------------------------------------------------------------
(* Exact rational arithmetic; NaN is the missing value *)

Abs(x) == IF x < 0 THEN -x ELSE x

RECURSIVE GCD(_, _)
GCD(x, y) == IF y = 0 THEN x ELSE GCD(y, x % y)

NaN == [num |-> 0, den |-> 0]

IsNaN(x) == x.den = 0

Rat(n, d) ==
    LET g == GCD(Abs(n), d)
    IN  [num |-> n \div g, den |-> d \div g]

IntRat(n) == [num |-> n, den |-> 1]

\* comparisons with NaN are false, as in IEEE arithmetic
RatLeq(x, y) == ~IsNaN(x) /\ ~IsNaN(y) /\ x.num * y.den <= y.num * x.den

RatLt(x, y) == ~IsNaN(x) /\ ~IsNaN(y) /\ x.num * y.den < y.num * x.den

RatAdd(x, y) ==
    IF IsNaN(x) \/ IsNaN(y) THEN NaN
    ELSE Rat(x.num * y.den + y.num * x.den, x.den * y.den)

RatSub(x, y) ==
    IF IsNaN(x) \/ IsNaN(y) THEN NaN
    ELSE Rat(x.num * y.den - y.num * x.den, x.den * y.den)

RatMul(x, y) ==
    IF IsNaN(x) \/ IsNaN(y) THEN NaN
    ELSE Rat(x.num * y.num, x.den * y.den)

RECURSIVE SumSeq(_)
SumSeq(q) == IF q = <<>> THEN IntRat(0) ELSE RatAdd(Head(q), SumSeq(Tail(q)))

RECURSIVE MinSeq(_)
MinSeq(q) ==
    IF Len(q) = 1 THEN Head(q)
    ELSE LET m == MinSeq(Tail(q)) IN IF RatLeq(Head(q), m) THEN Head(q) ELSE m

RECURSIVE MaxSeq(_)
MaxSeq(q) ==
    IF Len(q) = 1 THEN Head(q)
    ELSE LET m == MaxSeq(Tail(q)) IN IF RatLeq(m, Head(q)) THEN Head(q) ELSE m

\* a plausible slip: missing values taken as zero (fillna(0)) instead of skipped
NaNAsZero(q) == [i \in 1..Len(q) |-> IF IsNaN(q[i]) THEN Rat(0, 1) ELSE q[i]]

\* the values of q that are not missing
DropNaN(q) == SelectSeq(q, LAMBDA x : ~IsNaN(x))

\* the values of q in increasing order
Sorted(q) == SortSeq(q, LAMBDA x, y : RatLt(x, y))

RECURSIVE Flatten(_)
Flatten(qq) == IF qq = <<>> THEN <<>> ELSE Head(qq) \o Flatten(Tail(qq))

-----------------------------------------------------------------------------
(* Quantiles with linear interpolation between order statistics *)

\* a plausible slip: the lower order statistic, without interpolation
QuantileLower(q0, qn, qd) ==
    LET v == Sorted(DropNaN(q0))
        n == Len(v)
    IN  IF n = 0 THEN NaN ELSE v[(((n - 1) * qn) \div qd) + 1]

\* The q = qn/qd quantile of the values of q0 that are not NaN: with n values
\* sorted as v[0..n-1] and h = (n-1)*q, it is v[floor h] + (h - floor h) *
\* (v[floor h + 1] - v[floor h]); NaN when there is no value.
Quantile(q0, qn, qd) ==
    LET v == Sorted(DropNaN(q0))
        n == Len(v)
        h == (n - 1) * qn
        k == h \div qd
        r == h % qd
        lo == v[k + 1]
        hi == v[IF k + 2 <= n THEN k + 2 ELSE n]
    IN  IF n = 0 THEN NaN
        ELSE RatAdd(lo, RatMul(Rat(r, qd), RatSub(hi, lo)))

\* numpy.nanpercentile(a, q): q in percent, NaN values ignored
np_nanpercentile(a, q) == Quantile(a, q, 100)

\* pandas Series.quantile(q): q a fraction, missing values skipped
Series_quantile(col, q) == Quantile(col, q.num, q.den)

-----------------------------------------------------------------------------
(* The raster and the zonal statistics of one feature *)

\* the raster's nodata sentinel, src.nodata
Nodata == -9999

\* The window rasterstats reads for a feature is the block of cells of the band
\* under the feature's bounding box (filled with nodata outside the raster's
\* extent).  A cell carries its raw sample and whether the polygon covers it.
\* Windows are flattened row by row; a window of no rows has no cell.  Samples
\* are 0, 1 or the sentinel.
Cell(v, i) == [val |-> v, inside |-> i]

\* the kinds of cell, in a fixed order
CellKinds == << Cell(0, TRUE), Cell(1, TRUE), Cell(0, FALSE), Cell(1, FALSE),
                Cell(Nodata, TRUE) >>

RECURSIVE Repeat(_, _)
Repeat(x, n) == IF n = 0 THEN <<>> ELSE <<x>> \o Repeat(x, n - 1)

RECURSIVE SumCounts(_, _)
SumCounts(c, k) == IF k = 0 THEN 0 ELSE c[k] + SumCounts(c, k - 1)

\* the window holding c[k] cells of kind k (statistics do not depend on the order)
MkWindow(c) == Flatten([k \in 1..Len(CellKinds) |-> Repeat(CellKinds[k], c[k])])

\* every window of at most n cells, up to the order of its cells
Windows(n) ==
    { MkWindow(c) : c \in { d \in [1..Len(CellKinds) -> 0..n] :
                            SumCounts(d, Len(CellKinds)) <= n } }

\* rasterstats: mask everything that is nodata or not within the geometry
IsMasked(c, nodata) == c.val = nodata \/ ~c.inside

\* masked.compressed(): the samples that are not masked
Compressed(w, nodata) ==
    LET keep == SelectSeq(w, LAMBDA c : ~IsMasked(c, nodata))
    IN  [i \in 1..Len(keep) |-> IntRat(keep[i].val)]

\* numpy.array(x, copy=True) of a masked array: the underlying samples, mask dropped
RawData(w) == [i \in 1..Len(w) |-> IntRat(w[i].val)]

\* add_stats "p10"/"p90", lines 32-33: x is the masked window, len(x) its rows
AddPercentile(w, q) == IF Len(w) > 0 THEN np_nanpercentile(RawData(w), q) ELSE NaN

\* a plausible variant of line 34 that, like lines 32-33, drops the mask
RangeUnmasked(w, nodata) ==
    IF Len(w) > 0 THEN RatSub(MaxSeq(RawData(w)), MinSeq(RawData(w))) ELSE NaN

\* add_stats "range", line 34: numpy.nanmax/nanmin of a masked array reduce over
\* the unmasked samples and give the masked constant (missing) when there is none
AddRange(w, nodata) ==
    LET x == Compressed(w, nodata)
    IN  IF Len(w) > 0
        THEN (IF Len(x) = 0 THEN NaN ELSE RatSub(MaxSeq(x), MinSeq(x)))
        ELSE NaN

\* zonal_stats for one feature, lines 26-37.  The field std carries the square of
\* the standard deviation (the population variance), which is exact in rationals.
zonal_stats(w, nodata) ==
    LET x == Compressed(w, nodata)
        n == Len(x)
        sum == SumSeq(x)
        sq == SumSeq([i \in 1..n |-> RatMul(x[i], x[i])])
        mean == RatMul(sum, Rat(1, n))
    IN  [ count |-> IntRat(n),
          mean |-> IF n = 0 THEN NaN ELSE mean,
          min |-> IF n = 0 THEN NaN ELSE MinSeq(x),
          max |-> IF n = 0 THEN NaN ELSE MaxSeq(x),
          std |-> IF n = 0 THEN NaN
                  ELSE RatSub(RatMul(sq, Rat(1, n)), RatMul(mean, mean)),
          p10 |-> AddPercentile(w, 10),
          p90 |-> AddPercentile(w, 90),
          range |-> AddRange(w, nodata) ]

-----------------------------------------------------------------------------
(* Text: a string is a sequence of characters; a character is a one-letter   *)
(* string, or "U+XXXX" for a character outside ASCII                         *)

LowerLetters == << "a", "b", "c", "d", "e", "f", "g", "h", "i", "j", "k", "l", "m",
                   "n", "o", "p", "q", "r", "s", "t", "u", "v", "w", "x", "y", "z" >>

UpperLetters == << "A", "B", "C", "D", "E", "F", "G", "H", "I", "J", "K", "L", "M",
                   "N", "O", "P", "Q", "R", "S", "T", "U", "V", "W", "X", "Y", "Z" >>

\* the position of c in the list q, 0 when absent
RECURSIVE IndexOf(_, _, _)
IndexOf(c, q, k) ==
    IF k > Len(q) THEN 0 ELSE IF q[k] = c THEN k ELSE IndexOf(c, q, k + 1)

\* unicodedata.category(c), as far as the general category matters here:
\* "Mn" non-spacing mark, "Mc" spacing combining mark, "Ll" lower-case letter,
\* "Lu" upper-case letter, "Zz" anything else
Category(c) ==
    IF c \in {"U+0301", "U+0303", "U+034F"} THEN "Mn"
    ELSE IF c \in {"U+1D16D", "U+1D165"} THEN "Mc"
    ELSE IF c \in {"U+00E1", "U+00F1", "U+0138", "U+00DF"} THEN "Ll"
    ELSE IF c \in {"U+00C1", "U+00D1"} THEN "Lu"
    ELSE IF IndexOf(c, LowerLetters, 1) > 0 THEN "Ll"
    ELSE IF IndexOf(c, UpperLetters, 1) > 0 THEN "Lu"
    ELSE "Zz"

\* the canonical combining class of c (UnicodeData.txt)
CombiningClass(c) ==
    IF c \in {"U+0301", "U+0303"} THEN 230
    ELSE IF c = "U+1D16D" THEN 226
    ELSE IF c = "U+1D165" THEN 216
    ELSE 0

\* the canonical decomposition of c
Decomposition(c) ==
    IF c = "U+00E1" THEN << "a", "U+0301" >>
    ELSE IF c = "U+00C1" THEN << "A", "U+0301" >>
    ELSE IF c = "U+00F1" THEN << "n", "U+0303" >>
    ELSE IF c = "U+00D1" THEN << "N", "U+0303" >>
    ELSE << c >>

\* canonical ordering: c is put after the marks before it, moving in front of
\* those of a higher combining class; a character of class 0 never moves
RECURSIVE InsertMark(_, _)
InsertMark(q, c) ==
    IF q # <<>> /\ CombiningClass(c) > 0
       /\ CombiningClass(q[Len(q)]) > CombiningClass(c)
    THEN Append(InsertMark(SubSeq(q, 1, Len(q) - 1), c), q[Len(q)])
    ELSE Append(q, c)

RECURSIVE CanonicalOrder(_, _)
CanonicalOrder(done, rest) ==
    IF rest = <<>> THEN done
    ELSE CanonicalOrder(InsertMark(done, Head(rest)), Tail(rest))

\* unicodedata.normalize("NFD", str): decompose, then order the marks
NFD(str) == CanonicalOrder(<<>>, Flatten([i \in 1..Len(str) |-> Decomposition(str[i])]))

\* the full upper-case mapping of one character (str.upper is not context-sensitive)
CharUpper(c) ==
    IF IndexOf(c, LowerLetters, 1) > 0 THEN << UpperLetters[IndexOf(c, LowerLetters, 1)] >>
    ELSE IF c = "U+00E1" THEN << "U+00C1" >>
    ELSE IF c = "U+00F1" THEN << "U+00D1" >>
    ELSE IF c = "U+00DF" THEN << "S", "S" >>
    ELSE << c >>

\* str.upper()
str_upper(str) == Flatten([i \in 1..Len(str) |-> CharUpper(str[i])])

\* normalize_str, lines 14-19
normalize_str(str) ==
    str_upper(SelectSeq(NFD(str), LAMBDA c : Category(c) # "Mn"))

\* a missing text value (NaN in an object column)
NoStr == << "<NA>" >>

LORETO == << "L", "O", "R", "E", "T", "O" >>

UCAYALI == << "U", "C", "A", "Y", "A", "L", "I" >>

MADRE_DE_DIOS == << "M", "A", "D", "R", "E", " ", "D", "E", " ", "D", "I", "O", "S" >>

PUNO == << "P", "U", "N", "O" >>

\* department names as a boundary layer or a CSV may spell them
DeptNames == << LORETO,
                << "P", "u", "n", "o" >>,
                << "U", "c", "a", "y", "a", "l", "i" >>,
                PUNO,
                << "l", "o", "r", "e", "t", "o" >>,
                MADRE_DE_DIOS >>

-----------------------------------------------------------------------------
(* Inputs: the boundary layer and the raster *)

\* the i-th district of the boundary layer; UBIGEO is unique within the layer
Feature(i) ==
    [ UBIGEO |-> IntRat(i),
      DEPARTAMEN |-> DeptNames[((i - 1) % Len(DeptNames)) + 1],
      PROVINCIA |-> << "P" >>,
      DISTRITO |-> << "D", UpperLetters[((i - 1) % Len(UpperLetters)) + 1] >> ]

Layers == { [i \in 1..m |-> Feature(i)] : m \in 0..MaxFeatures }

\* a raster of n bands over m features holding the cells placed by pl, a list of
\* <<band, feature, kind of cell>>
MkRaster(n, m, pl) ==
    [ count |-> n,
      nodata |-> Nodata,
      windows |-> [bb \in 1..n |-> [i \in 1..m |->
          LET here == SelectSeq(pl, LAMBDA e : e[1] = bb /\ e[2] = i)
          IN  [j \in 1..Len(here) |-> CellKinds[here[j][3]]]]] ]

\* every raster of n bands over m features with at most MaxCells cells in all
Rasters(n, m) ==
    { MkRaster(n, m, pl) :
        pl \in UNION { [1..k -> (1..n) \X (1..m) \X (1..Len(CellKinds))] : k \in 0..MaxCells } }

\* a raster of one band whose single window is w
OneWindow(w) == [ count |-> 1, nodata |-> Nodata, windows |-> << << w >> >> ]

-----------------------------------------------------------------------------
(* compute_stats and the band loop *)

\* a plausible slip: the year offset taken from band 0
compute_stats_year0(g, raster, band) ==
    [i \in 1..Len(g) |->
        LET st == zonal_stats(raster.windows[band][i], raster.nodata)
        IN  [ count |-> st.count, mean |-> st.mean, min |-> st.min, max |-> st.max,
              std |-> st.std, p10 |-> st.p10, p90 |-> st.p90, range |-> st.range,
              BAND |-> IntRat(band), YEAR |-> IntRat(2020 + band) ]]

\* compute_stats(gdf, src, band), lines 21-42: one row per feature, in the order
\* of the features
compute_stats(g, raster, band) ==
    [i \in 1..Len(g) |->
        LET st == zonal_stats(raster.windows[band][i], raster.nodata)
        IN  [ count |-> st.count, mean |-> st.mean, min |-> st.min, max |-> st.max,
              std |-> st.std, p10 |-> st.p10, p90 |-> st.p90, range |-> st.range,
              BAND |-> IntRat(band), YEAR |-> IntRat(2019 + band) ]]

\* the attribute columns of a row that has no feature
NoFeature == [ UBIGEO |-> NaN, DEPARTAMEN |-> NoStr, PROVINCIA |-> NoStr, DISTRITO |-> NoStr ]

\* the statistics columns of a row that has no statistics
NoStats ==
    [ count |-> NaN, mean |-> NaN, min |-> NaN, max |-> NaN, std |-> NaN, p10 |-> NaN,
      p90 |-> NaN, range |-> NaN, BAND |-> NaN, YEAR |-> NaN ]

\* pd.concat([gdf_repeated, stats_df.add_prefix("TMIN_")], axis=1), line 95: the
\* rows of the two tables are paired by position (both carry the index 0, 1, ...)
ConcatColumns(g, st) ==
    [i \in 1..(IF Len(g) >= Len(st) THEN Len(g) ELSE Len(st)) |->
        LET f == IF i <= Len(g) THEN g[i] ELSE NoFeature
            x == IF i <= Len(st) THEN st[i] ELSE NoStats
        IN  [ UBIGEO |-> f.UBIGEO, DEPARTAMEN |-> f.DEPARTAMEN,
              PROVINCIA |-> f.PROVINCIA, DISTRITO |-> f.DISTRITO,
              TMIN_count |-> x.count, TMIN_mean |-> x.mean, TMIN_min |-> x.min,
              TMIN_max |-> x.max, TMIN_std |-> x.std, TMIN_p10 |-> x.p10,
              TMIN_p90 |-> x.p90, TMIN_range |-> x.range,
              TMIN_BAND |-> x.BAND, TMIN_YEAR |-> x.YEAR ]]

\* a plausible slip: range(1, src.count), which leaves the last band out
LoopDoneEarly == b >= src.count

\* the band loop of line 85, range(1, src.count + 1), is exhausted
LoopDone == b > src.count

\* lines 85-87: one turn of the band loop
BandLoop ==
    /\ pc = "band_loop"
    /\ ~LoopDone
    /\ all_stats' = Append(all_stats, compute_stats(gdf, src, b))
    /\ b' = b + 1
    /\ UNCHANGED <<pc, gdf, src, result, latest_year, error>>
    /\ UNCHANGED <<csv_file, t_min_stats>>
    /\ UNCHANGED globalVars
    /\ UNCHANGED amazonVars
    /\ UNCHANGED normVars

\* a plausible slip: each feature repeated src.count times in a row, as
\* gdf.loc[gdf.index.repeat(src.count)] would, instead of the layer as a whole
AssembleRepeatEach ==
    /\ pc = "band_loop"
    /\ LoopDone
    /\ LET stats_df == Flatten(all_stats)
           gdf_repeated == [j \in 1..(src.count * Len(gdf)) |->
                               gdf[((j - 1) \div src.count) + 1]]
       IN  result' = ConcatColumns(gdf_repeated, stats_df)
    /\ pc' = "ranking"
    /\ UNCHANGED <<gdf, src, b, all_stats, latest_year, error>>
    /\ UNCHANGED <<csv_file, t_min_stats>>
    /\ UNCHANGED globalVars
    /\ UNCHANGED amazonVars
    /\ UNCHANGED normVars

\* lines 89-95: the per-band tables are stacked, the features repeated once per
\* band, and the two placed side by side
Assemble ==
    /\ pc = "band_loop"
    /\ LoopDone
    /\ LET stats_df == Flatten(all_stats)
           gdf_repeated == Flatten([k \in 1..src.count |-> gdf])
       IN  result' = ConcatColumns(gdf_repeated, stats_df)
    /\ pc' = "ranking"
    /\ UNCHANGED <<gdf, src, b, all_stats, latest_year, error>>
    /\ UNCHANGED <<csv_file, t_min_stats>>
    /\ UNCHANGED globalVars
    /\ UNCHANGED amazonVars
    /\ UNCHANGED normVars

\* line 112: result["TMIN_YEAR"].max(), missing when the table has no row
Ranking ==
    /\ pc = "ranking"
    /\ LET years == DropNaN([i \in 1..Len(result) |-> result[i].TMIN_YEAR])
       IN  latest_year' = IF years = <<>> THEN NaN ELSE MaxSeq(years)
    /\ pc' = "read_csv"
    /\ UNCHANGED <<gdf, src, b, all_stats, result, error>>
    /\ UNCHANGED <<csv_file, t_min_stats>>
    /\ UNCHANGED globalVars
    /\ UNCHANGED amazonVars
    /\ UNCHANGED normVars

-----------------------------------------------------------------------------
(* The statistics table on disk *)

\* a row of Data/tmin_stats.csv, with the columns the targeting reads
CsvRow(f, m) ==
    [ UBIGEO |-> f.UBIGEO, DEPARTAMEN |-> f.DEPARTAMEN, PROVINCIA |-> f.PROVINCIA,
      DISTRITO |-> f.DISTRITO, TMIN_mean |-> m ]

\* the rows a file may hold, in a fixed order: district i with mean NaN, 1, 2, ...
CsvRows ==
    Flatten([i \in 1..MaxDistricts |->
        <<CsvRow(Feature(i), NaN)>> \o [m \in 1..MaxMean |-> CsvRow(Feature(i), IntRat(m))]])

\* every file of at most MaxRows rows, up to the order of its rows
CsvFiles ==
    { [j \in 1..Len(ix) |-> CsvRows[ix[j]]] :
        ix \in { jx \in UNION { [1..k -> 1..Len(CsvRows)] : k \in 0..MaxRows } :
                 \A j \in 1..(Len(jx) - 1) : jx[j] <= jx[j + 1] } }

\* the file of n districts whose means are 1, 2, ..., n
ScenarioTable(n) == [i \in 1..n |-> CsvRow(Feature(i), IntRat(i))]

\* the file of n districts over PanelYears years: the means are 1, 2, ... and
\* district i holds the i-th run of PanelYears of them
PanelTable(n) ==
    [j \in 1..(PanelYears * n) |->
        CsvRow(Feature(((j - 1) \div PanelYears) + 1), IntRat(j))]

-----------------------------------------------------------------------------
(* Percentile targeting, lines 147-216 *)

\* the quantile fraction of lines 150 and 188
P10 == Rat(1, 10)

\* quantile fractions a cohort may be asked for
Percentiles == { Rat(0, 1), P10, Rat(1, 4), Rat(1, 2), Rat(9, 10), Rat(1, 1) }

amazon_depts == { LORETO, UCAYALI, MADRE_DE_DIOS }

MeanColumn(tb) == [i \in 1..Len(tb) |-> tb[i].TMIN_mean]

\* a plausible slip: rows warmer than the threshold
FilterAbove(tb, thr) == SelectSeq(tb, LAMBDA r : RatLeq(thr, r.TMIN_mean))

\* lines 153 and 190: the rows whose mean is at or below the threshold
FilterAtOrBelow(tb, thr) == SelectSeq(tb, LAMBDA r : RatLeq(r.TMIN_mean, thr))

\* the grouping key of a row, line 158
DistrictKey(r) ==
    [ UBIGEO |-> r.UBIGEO, DEPARTAMEN |-> r.DEPARTAMEN, PROVINCIA |-> r.PROVINCIA,
      DISTRITO |-> r.DISTRITO ]

\* groupby drops the rows that miss a key
HasKey(r) ==
    /\ ~IsNaN(r.UBIGEO)
    /\ r.DEPARTAMEN # NoStr /\ r.PROVINCIA # NoStr /\ r.DISTRITO # NoStr

\* the means of the rows of tb under key k, missing ones skipped
GroupMeans(tb, k) ==
    DropNaN(MeanColumn(SelectSeq(tb, LAMBDA r : HasKey(r) /\ DistrictKey(r) = k)))

\* a plausible slip: the warmest mean of each district
GroupByMax(tb) ==
    { [ UBIGEO |-> k.UBIGEO, DEPARTAMEN |-> k.DEPARTAMEN, PROVINCIA |-> k.PROVINCIA,
        DISTRITO |-> k.DISTRITO,
        TMIN_mean |-> IF GroupMeans(tb, k) = <<>> THEN NaN ELSE MaxSeq(GroupMeans(tb, k)) ] :
      k \in { DistrictKey(tb[i]) : i \in { j \in 1..Len(tb) : HasKey(tb[j]) } } }

\* lines 157-160 and 195-198: groupby([...], as_index=False)["TMIN_mean"].min(),
\* one row per key (the order of the rows is not modelled)
GroupByMin(tb) ==
    { [ UBIGEO |-> k.UBIGEO, DEPARTAMEN |-> k.DEPARTAMEN, PROVINCIA |-> k.PROVINCIA,
        DISTRITO |-> k.DISTRITO,
        TMIN_mean |-> IF GroupMeans(tb, k) = <<>> THEN NaN ELSE MinSeq(GroupMeans(tb, k)) ] :
      k \in { DistrictKey(tb[i]) : i \in { j \in 1..Len(tb) : HasKey(tb[j]) } } }

\* lines 150-160 with the quantile fraction q: the threshold and the cohort
Threshold(tb, q) == Series_quantile(MeanColumn(tb), q)

Cohort(tb, q) == GroupByMin(FilterAtOrBelow(tb, Threshold(tb, q)))

\* Series.quantile(q), lines 150 and 188, checks q before anything else: a
\* fraction outside [0, 1] raises ValueError
ValidPercentile(q) == RatLeq(Rat(0, 1), q) /\ RatLeq(q, Rat(1, 1))

\* lines 150-160 with the quantile fraction q: the exception that ends them, ""
\* when none, and the cohort, which exists only when nothing was raised
CohortRequest(tb, q) ==
    IF ValidPercentile(q)
    THEN [ error |-> "", produced |-> TRUE, cohort |-> Cohort(tb, q) ]
    ELSE [ error |-> "ValueError", produced |-> FALSE, cohort |-> {} ]

\* the rows of a set, in some order
RECURSIVE SetToSeq(_)
SetToSeq(S) ==
    IF S = {} THEN <<>>
    ELSE LET x == CHOOSE y \in S : TRUE IN <<x>> \o SetToSeq(S \ {x})

\* Series.mean(): the mean of the values that are not missing, NaN when there is none
SeriesMean(col) ==
    LET v == DropNaN(col)
    IN  IF v = <<>> THEN NaN ELSE RatMul(SumSeq(v), Rat(1, Len(v)))

\* lines 168 and 203: the departments of a cohort
Departments(cohort) == { r.DEPARTAMEN : r \in cohort }

\* lines 173 and 208: the mean of the cohort's means
CohortMean(cohort) == SeriesMean(MeanColumn(SetToSeq(cohort)))

\* lines 176 and 211: the mean of the cohort's means, by department
MeanByDepartment(cohort) ==
    [ d \in Departments(cohort) |->
        SeriesMean(MeanColumn(SetToSeq({ r \in cohort : r.DEPARTAMEN = d }))) ]

\* a plausible slip: the department compared as spelled
ScopeRowsExact(tb) == SelectSeq(tb, LAMBDA r : r.DEPARTAMEN \in amazon_depts)

\* line 186: the rows whose upper-cased department is an Amazonian one
ScopeRows(tb) ==
    SelectSeq(tb, LAMBDA r : r.DEPARTAMEN # NoStr /\ str_upper(r.DEPARTAMEN) \in amazon_depts)

\* line 147: pd.read_csv("Data/tmin_stats.csv")
ReadCsv ==
    /\ pc = "read_csv"
    /\ t_min_stats' = csv_file
    /\ pc' = "global_p10"
    /\ UNCHANGED zonalVars
    /\ UNCHANGED <<csv_file, error>>
    /\ UNCHANGED globalVars
    /\ UNCHANGED amazonVars
    /\ UNCHANGED normVars

\* lines 150-181: the global cohort and its summaries
GlobalCohort ==
    /\ pc = "global_p10"
    /\ global_p10' = Threshold(t_min_stats, P10)
    /\ target_unique' = Cohort(t_min_stats, P10)
    /\ departamentos' = Departments(target_unique')
    /\ promedio_tmin' = CohortMean(target_unique')
    /\ promedio_por_depto' = MeanByDepartment(target_unique')
    /\ pc' = "amazonicos"
    /\ UNCHANGED zonalVars
    /\ UNCHANGED <<csv_file, t_min_stats, error>>
    /\ UNCHANGED amazonVars
    /\ UNCHANGED normVars

\* lines 185-216: the Amazonian cohort and its summaries; line 205 builds the
\* table of departments from departamentos, the global cohort's
AmazonCohort ==
    /\ pc = "amazonicos"
    /\ t_min_stats_amazonicos' = ScopeRows(t_min_stats)
    /\ global_p10_amazonicos' = Threshold(t_min_stats_amazonicos', P10)
    /\ target_unique_amazonicos' = Cohort(t_min_stats_amazonicos', P10)
    /\ departamentos_amaz' = Departments(target_unique_amazonicos')
    /\ departamentos_amazonicos_df' = departamentos
    /\ promedio_tmin_amazonicos' = CohortMean(target_unique_amazonicos')
    /\ promedio_por_depto_amazonicos' = MeanByDepartment(target_unique_amazonicos')
    /\ pc' = "done"
    /\ UNCHANGED zonalVars
    /\ UNCHANGED <<csv_file, t_min_stats, error>>
    /\ UNCHANGED globalVars
    /\ UNCHANGED normVars

-----------------------------------------------------------------------------
(* normalize_str applied to a name, and to its own result *)

NormChars ==
    { "a", "A", "n", "1", " ", "U+00E1", "U+00D1", "U+0301", "U+034F", "U+1D16D",
      "U+1D165", "U+0138", "U+00DF" }

Names == UNION { [1..k -> NormChars] : k \in 0..MaxStrLen }

Normalize ==
    /\ pc = "normalize"
    /\ once' = normalize_str(s)
    /\ pc' = "renormalize"
    /\ UNCHANGED zonalVars
    /\ UNCHANGED <<csv_file, t_min_stats, error, s, twice>>
    /\ UNCHANGED globalVars
    /\ UNCHANGED amazonVars

Renormalize ==
    /\ pc = "renormalize"
    /\ twice' = normalize_str(once)
    /\ pc' = "normalized"
    /\ UNCHANGED zonalVars
    /\ UNCHANGED <<csv_file, t_min_stats, error, s, once>>
    /\ UNCHANGED globalVars
    /\ UNCHANGED amazonVars

-----------------------------------------------------------------------------
(* Specifications *)

\* the state before anything is computed
Blank ==
    /\ b = 1
    /\ all_stats = <<>>
    /\ result = <<>>
    /\ latest_year = NaN
    /\ t_min_stats = <<>>
    /\ global_p10 = NaN
    /\ target_unique = {}
    /\ departamentos = {}
    /\ promedio_tmin = NaN
    /\ promedio_por_depto = <<>>
    /\ t_min_stats_amazonicos = <<>>
    /\ global_p10_amazonicos = NaN
    /\ target_unique_amazonicos = {}
    /\ departamentos_amaz = {}
    /\ departamentos_amazonicos_df = {}
    /\ promedio_tmin_amazonicos = NaN
    /\ promedio_por_depto_amazonicos = <<>>
    /\ error = ""
    /\ once = <<>>
    /\ twice = <<>>

\* the script, lines 72-216: a boundary layer, a raster and a file on disk
Init ==
    /\ pc = "band_loop"
    /\ gdf \in Layers
    /\ src \in UNION { Rasters(n, Len(gdf)) : n \in 1..MaxBands }
    /\ csv_file \in { ScenarioTable(n) : n \in 0..MaxFeatures }
    /\ s = <<>>
    /\ Blank

Next == BandLoop \/ Assemble \/ Ranking \/ ReadCsv \/ GlobalCohort \/ AmazonCohort

Spec == Init /\ [][Next]_vars

\* the script over one feature and one band, the window of any shape
InitStats ==
    /\ pc = "band_loop"
    /\ gdf = << Feature(1) >>
    /\ src \in { OneWindow(w) : w \in Windows(MaxStatCells) }
    /\ csv_file = <<>>
    /\ s = <<>>
    /\ Blank

SpecStats == InitStats /\ [][Next]_vars

\* the targeting, lines 147-216, over any file
InitTarget ==
    /\ pc = "read_csv"
    /\ gdf = <<>>
    /\ src = OneWindow(<<>>)
    /\ csv_file \in CsvFiles \cup { ScenarioTable(n) : n \in 1..MaxScenario }
                       \cup { PanelTable(n) : n \in 1..MaxPanel }
    /\ s = <<>>
    /\ Blank

NextTarget == ReadCsv \/ GlobalCohort \/ AmazonCohort

SpecTarget == InitTarget /\ [][NextTarget]_vars

\* normalize_str over any name
InitNorm ==
    /\ pc = "normalize"
    /\ gdf = <<>>
    /\ src = OneWindow(<<>>)
    /\ csv_file = <<>>
    /\ s \in Names
    /\ Blank

NextNorm == Normalize \/ Renormalize

SpecNorm == InitNorm /\ [][NextNorm]_vars

-----------------------------------------------------------------------------
(* Properties of the zonal statistics *)

\* the rows compute_stats has produced so far
StatRows == UNION { { all_stats[k][i] : i \in 1..Len(all_stats[k]) } : k \in 1..Len(all_stats) }

AllMissing(r) ==
    /\ IsNaN(r.mean) /\ IsNaN(r.min) /\ IsNaN(r.max) /\ IsNaN(r.std)
    /\ IsNaN(r.p10) /\ IsNaN(r.p90) /\ IsNaN(r.range)

\* C1: a record whose feature covers no valid cell has count = 0 and every reduced
\* field (mean, min, max, std, p10, p90, range) not-a-number
C1_ZeroCountAllMissing ==
    \A r \in StatRows : r.count = IntRat(0) => AllMissing(r)

C3_RowsAndKeys ==
    pc # "band_loop" =>
        /\ Len(Flatten(all_stats)) = src.count * Len(gdf)
        /\ Len(result) = src.count * Len(gdf)
        /\ \A i, j \in 1..Len(result) :
              (/\ result[i].UBIGEO = result[j].UBIGEO
               /\ result[i].TMIN_BAND = result[j].TMIN_BAND) => i = j

\* the table of two bands over two features is assembled
C3_Witness ==
    /\ pc = "ranking"
    /\ src.count = 2 /\ Len(gdf) = 2
    /\ Len(result) = 4
    /\ result[2].UBIGEO = result[4].UBIGEO
    /\ result[2].TMIN_BAND # result[4].TMIN_BAND

\* C10: the rows computed for band b carry band = b and year = 2019 + b (band 1
\* is 2020, band 2 is 2021), and the latest year of the table of an N-band
\* raster is 2019 + N
C10_BandAndYear ==
    /\ \A k \in 1..Len(all_stats) : \A i \in 1..Len(all_stats[k]) :
          /\ all_stats[k][i].BAND = IntRat(k)
          /\ all_stats[k][i].YEAR = IntRat(2019 + k)
    /\ \A i \in 1..Len(result) :
          /\ result[i].TMIN_BAND = IntRat(1) => result[i].TMIN_YEAR = IntRat(2020)
          /\ result[i].TMIN_BAND = IntRat(2) => result[i].TMIN_YEAR = IntRat(2021)
    /\ (pc \notin {"band_loop", "ranking"} /\ Len(gdf) > 0) =>
          latest_year = IntRat(2019 + src.count)

\* the latest year of a two-band table with rows has been taken
C10_Witness ==
    /\ pc = "read_csv"
    /\ src.count = 2 /\ Len(gdf) > 0
    /\ latest_year = IntRat(2021)
    /\ \E i \in 1..Len(result) : result[i].TMIN_BAND = IntRat(2)

-----------------------------------------------------------------------------
(* Properties of the targeting *)

Targeted == pc \in {"amazonicos", "done"}

KeysOf(cohort) == { DistrictKey(r) : r \in cohort }

RowsOf(tb) == { tb[i] : i \in 1..Len(tb) }

\* the j-th smallest (j = 0, 1, ...) of the values v, found by counting
OrderStat(v, j) ==
    CHOOSE x \in RowsOf(v) :
        /\ Cardinality({ i \in 1..Len(v) : RatLt(v[i], x) }) <= j
        /\ Cardinality({ i \in 1..Len(v) : RatLeq(v[i], x) }) > j

\* the qn/qd quantile of the means of tb that are not missing, interpolated
\* linearly between the two order statistics around position (n-1) * qn/qd
Interpolated(tb, qn, qd) ==
    LET v == DropNaN(MeanColumn(tb))
        n == Len(v)
        k == ((n - 1) * qn) \div qd
        r == ((n - 1) * qn) % qd
        lo == OrderStat(v, k)
        hi == OrderStat(v, IF k + 1 < n THEN k + 1 ELSE k)
    IN  IF n = 0 THEN NaN
        ELSE Rat(lo.num * hi.den * (qd - r) + hi.num * lo.den * r, lo.den * hi.den * qd)

\* the districts of tb that have a row with a mean at or below thr
DistrictsAtOrBelow(tb, thr) ==
    { DistrictKey(r) : r \in { x \in RowsOf(tb) : HasKey(x) /\ RatLeq(x.TMIN_mean, thr) } }

\* C4: the threshold is the 0.10 quantile of the mean column of the (scoped)
\* table, interpolated linearly between order statistics, and the cohort is
\* exactly the districts with a row at or below it; for the means 1, 2, ..., 100
\* the threshold is 10.9 and the cohort is the districts with the means 1 to 10
C4_ThresholdAndCohort ==
    /\ Targeted =>
          /\ global_p10 = Interpolated(t_min_stats, 1, 10)
          /\ KeysOf(target_unique) = DistrictsAtOrBelow(t_min_stats, global_p10)
    /\ pc = "done" =>
          /\ global_p10_amazonicos = Interpolated(t_min_stats_amazonicos, 1, 10)
          /\ KeysOf(target_unique_amazonicos) =
                 DistrictsAtOrBelow(t_min_stats_amazonicos, global_p10_amazonicos)
    /\ (Targeted /\ t_min_stats = ScenarioTable(100)) =>
          /\ global_p10 = Rat(109, 10)
          /\ { r.UBIGEO : r \in target_unique } = { IntRat(i) : i \in 1..10 }
          /\ \A r \in target_unique : r.TMIN_mean = r.UBIGEO

\* the cohort of the table of means 1, 2, ..., 100 is computed
C4_Witness ==
    /\ Targeted
    /\ t_min_stats = ScenarioTable(100)
    /\ global_p10 = Rat(109, 10)
    /\ Cardinality(target_unique) = 10

\* the smallest mean on record of district k in tb
ColdestOnRecord(tb, k) ==
    CHOOSE m \in { r.TMIN_mean : r \in { x \in RowsOf(tb) : DistrictKey(x) = k } } :
        /\ ~IsNaN(m)
        /\ \A r \in RowsOf(tb) :
              (DistrictKey(r) = k /\ ~IsNaN(r.TMIN_mean)) => RatLeq(m, r.TMIN_mean)

OneRowPerDistrict(cohort) ==
    \A x, y \in cohort : DistrictKey(x) = DistrictKey(y) => x = y

\* C5: a cohort holds at most one row per district (UBIGEO, department,
\* province, district), and the mean it reports for a district is the smallest
\* mean over all of that district's rows in the table the threshold was taken on
C5_CoversAllRows ==
    /\ Targeted =>
          /\ OneRowPerDistrict(target_unique)
          /\ \A r \in target_unique :
                r.TMIN_mean = ColdestOnRecord(t_min_stats, DistrictKey(r))
    /\ pc = "done" =>
          /\ OneRowPerDistrict(target_unique_amazonicos)
          /\ \A r \in target_unique_amazonicos :
                r.TMIN_mean = ColdestOnRecord(t_min_stats_amazonicos, DistrictKey(r))

\* a district of the cohort has two rows at or below the threshold, with
\* different means, and one above it
C5_Witness ==
    /\ Targeted
    /\ \E r \in target_unique :
          LET mine == { x \in RowsOf(t_min_stats) : DistrictKey(x) = DistrictKey(r) }
          IN  /\ \E x \in mine : x.TMIN_mean = r.TMIN_mean
              /\ \E x \in mine : /\ RatLt(r.TMIN_mean, x.TMIN_mean)
                                 /\ RatLeq(x.TMIN_mean, global_p10)
              /\ \E x \in mine : RatLt(global_p10, x.TMIN_mean)

\* the districts of the cohort of tb at each quantile fraction
CohortKeys(tb) == [p \in Percentiles |-> KeysOf(Cohort(tb, p))]

Monotonic(c) == \A p1, p2 \in Percentiles : RatLeq(p1, p2) => c[p1] \subseteq c[p2]

\* the cohort computed at 0.10 lies between those of the smaller and of the
\* larger percentiles
Between(c, mine) ==
    \A p \in Percentiles :
        /\ RatLeq(P10, p) => mine \subseteq c[p]
        /\ RatLeq(p, P10) => c[p] \subseteq mine

\* C6: for any table and scope, the districts of the cohort at percentile p1
\* are among those of the cohort at any percentile p2 >= p1
C6_Monotonic ==
    /\ pc = "global_p10" =>
          /\ Monotonic(CohortKeys(t_min_stats))
          /\ Monotonic(CohortKeys(ScopeRows(t_min_stats)))
    /\ pc = "amazonicos" =>
          Between(CohortKeys(t_min_stats), KeysOf(target_unique))
    /\ pc = "done" =>
          Between(CohortKeys(t_min_stats_amazonicos), KeysOf(target_unique_amazonicos))

\* the cohort computed at 0.10 is not empty and the cohort at 0.5 is larger
C6_Witness ==
    /\ pc = "amazonicos"
    /\ target_unique # {}
    /\ KeysOf(target_unique) # KeysOf(Cohort(t_min_stats, Rat(1, 2)))
    /\ KeysOf(Cohort(t_min_stats, Rat(0, 1))) # {}

\* two characters that are the same letter, in either case
SameLetter(c, d) ==
    \/ c = d
    \/ \E k \in 1..Len(LowerLetters) : {c, d} = {LowerLetters[k], UpperLetters[k]}

SameIgnoringCase(x, y) ==
    /\ x # NoStr /\ y # NoStr
    /\ Len(x) = Len(y)
    /\ \A i \in 1..Len(x) : SameLetter(x[i], y[i])

InScope(d) == \E m \in amazon_depts : SameIgnoringCase(d, m)

RowsInScope(tb) == SelectSeq(tb, LAMBDA r : InScope(r.DEPARTAMEN))

\* C7: the Amazonian threshold and cohort are computed from exactly the rows
\* whose department is LORETO, UCAYALI or MADRE DE DIOS up to letter case: rows
\* of other departments neither appear in the cohort nor move the threshold
C7_ScopedOnly ==
    pc = "done" =>
        /\ t_min_stats_amazonicos = RowsInScope(t_min_stats)
        /\ \A r \in target_unique_amazonicos : InScope(r.DEPARTAMEN)
        /\ global_p10_amazonicos = Interpolated(RowsInScope(t_min_stats), 1, 10)
        /\ KeysOf(target_unique_amazonicos) =
               DistrictsAtOrBelow(RowsInScope(t_min_stats), global_p10_amazonicos)

\* the Amazonian cohort holds a district whose department is spelled in mixed
\* case, and the table holds a colder row of another department
C7_Witness ==
    /\ pc = "done"
    /\ \E r \in target_unique_amazonicos : r.DEPARTAMEN \notin amazon_depts
    /\ \E x \in RowsOf(t_min_stats) :
          /\ ~InScope(x.DEPARTAMEN)
          /\ RatLt(x.TMIN_mean, global_p10_amazonicos)
    /\ global_p10 # global_p10_amazonicos

\* C8: when the scope matches no row, the computation fails with
\* EmptyScopeError instead of taking a quantile over no row and returning an
\* empty cohort
C8_EmptyScopeFails ==
    (pc = "done" /\ t_min_stats_amazonicos = <<>>) => error = "EmptyScopeError"

\* C11: the departments reported for the Amazonian cohort are exactly the
\* departments that occur in that cohort, hence departments of the scope, and the
\* overall and the per-department mean of means are taken over that same cohort
C11_ScopedAggregates ==
    pc = "done" =>
        /\ departamentos_amazonicos_df = { r.DEPARTAMEN : r \in target_unique_amazonicos }
        /\ \A d \in departamentos_amazonicos_df : InScope(d)
        /\ promedio_tmin_amazonicos = CohortMean(target_unique_amazonicos)
        /\ DOMAIN promedio_por_depto_amazonicos =
               { r.DEPARTAMEN : r \in target_unique_amazonicos }
        /\ \A d \in DOMAIN promedio_por_depto_amazonicos :
              promedio_por_depto_amazonicos[d] =
                  CohortMean({ r \in target_unique_amazonicos : r.DEPARTAMEN = d })

-----------------------------------------------------------------------------
(* Properties of the error handling and of the assembled table *)

\* C12: compute_stats called with an empty boundary collection fails with
\* EmptyInputError instead of returning a statistics table without rows
C12_EmptyInputFails ==
    (gdf = <<>> /\ all_stats # <<>>) => error = "EmptyInputError"

\* quantile fractions outside [0, 1]
OutOfRange == { Rat(0 - 1, 10), Rat(11, 10), Rat(3, 2) }

Assembled == pc \notin {"band_loop", "normalize", "renormalize", "normalized"}

\* the row pairs the attributes of feature f with the statistics st
Pairs(row, f, st) ==
    /\ row.UBIGEO = f.UBIGEO /\ row.DEPARTAMEN = f.DEPARTAMEN
    /\ row.PROVINCIA = f.PROVINCIA /\ row.DISTRITO = f.DISTRITO
    /\ row.TMIN_count = st.count /\ row.TMIN_mean = st.mean
    /\ row.TMIN_min = st.min /\ row.TMIN_max = st.max /\ row.TMIN_std = st.std
    /\ row.TMIN_p10 = st.p10 /\ row.TMIN_p90 = st.p90 /\ row.TMIN_range = st.range

\* C14: in the assembled table of N bands over M features, row (b-1)*M + i
\* holds the attributes of feature i, the statistics compute_stats produced for
\* feature i in band b (those of the window of feature i in band b) and band b
C14_RowsPaired ==
    Assembled =>
        /\ Len(result) = src.count * Len(gdf)
        /\ \A bb \in 1..src.count : \A i \in 1..Len(gdf) :
              LET row == result[(bb - 1) * Len(gdf) + i]
              IN  /\ Pairs(row, gdf[i], all_stats[bb][i])
                  /\ Pairs(row, gdf[i], zonal_stats(src.windows[bb][i], src.nodata))
                  /\ row.TMIN_BAND = IntRat(bb)
                  /\ row.TMIN_YEAR = all_stats[bb][i].YEAR

\* a table of two bands over two features is assembled, and in the second band
\* the second feature has a valid cell while the first has none
C14_Witness ==
    /\ Assembled
    /\ src.count = 2 /\ Len(gdf) = 2
    /\ gdf[1] # gdf[2]
    /\ result[3].TMIN_count = IntRat(0)
    /\ result[4].TMIN_count = IntRat(1)
    /\ result[4].UBIGEO = gdf[2].UBIGEO

\* the rows of tb whose mean is defined
Defined(tb) == SelectSeq(tb, LAMBDA r : ~IsNaN(r.TMIN_mean))

\* row r holds the smallest defined mean of tb
Coldest(tb, r) ==
    /\ ~IsNaN(r.TMIN_mean)
    /\ \A x \in RowsOf(tb) : ~IsNaN(x.TMIN_mean) => RatLeq(r.TMIN_mean, x.TMIN_mean)

\* threshold thr and cohort, computed from tb, owe nothing to the rows of tb
\* whose mean is missing
NaNApart(tb, thr, cohort) ==
    /\ thr = Threshold(Defined(tb), P10)
    /\ cohort = Cohort(Defined(tb), P10)
    /\ \A r \in cohort :
          /\ ~IsNaN(r.TMIN_mean)
          /\ \E x \in RowsOf(tb) :
                /\ DistrictKey(x) = DistrictKey(r)
                /\ x.TMIN_mean = r.TMIN_mean
                /\ RatLeq(x.TMIN_mean, thr)
    /\ Defined(tb) # <<>> => cohort # {}
    /\ \A x \in RowsOf(tb) : Coldest(tb, x) => DistrictKey(x) \in KeysOf(cohort)

\* C15: the rows whose mean is not a number take no part in the targeting:
\* threshold and cohort are those of the table without them, no cohort row
\* comes from one of them, and when some row of the (scoped) table has a
\* defined mean the cohort is not empty and holds the district of the smallest
\* mean
C15_MissingMeansApart ==
    /\ Targeted => NaNApart(t_min_stats, global_p10, target_unique)
    /\ pc = "done" =>
          NaNApart(t_min_stats_amazonicos, global_p10_amazonicos, target_unique_amazonicos)

\* the Amazonian table holds a district whose only row has no mean, next to rows
\* with a mean, and the cohort holds the coldest district and not that one
C15_Witness ==
    /\ pc = "done"
    /\ \E x \in RowsOf(t_min_stats_amazonicos) :
          /\ IsNaN(x.TMIN_mean)
          /\ DistrictKey(x) \notin KeysOf(target_unique_amazonicos)
    /\ \E x \in RowsOf(t_min_stats_amazonicos) :
          /\ Coldest(t_min_stats_amazonicos, x)
          /\ DistrictKey(x) \in KeysOf(target_unique_amazonicos)
    /\ ~IsNaN(global_p10_amazonicos)

-----------------------------------------------------------------------------
(* Properties of normalize_str *)

\* C9: normalize_str never raises, its result holds no combining diacritical
\* mark and no lower-case letter, and normalising the result changes nothing
C9_TotalIdempotent ==
    pc = "normalized" =>
        /\ error = ""
        /\ \A i \in 1..Len(once) : Category(once[i]) # "Mn"
        /\ \A i \in 1..Len(once) : Category(once[i]) # "Ll"
        /\ twice = once

====
